---- MODULE Spec2Model ----
(***************************************************************************)
(* Model of src/jeni.py: the battery charging / discharging simulator.     *)
(*                                                                         *)
(* The state is the sidebar selection of the pack (module globals of the   *)
(* script), the pack totals derived from it, and the arguments and local   *)
(* variables of simulate_battery.  The actions are: the start of a script  *)
(* run that reads the sidebar and resolves the pack totals (Sidebar), the  *)
(* call of simulate_battery up to its for loop (Call), one iteration of    *)
(* the loop (Step), the return of the frame (Return) and the rest of the   *)
(* script run, which shows the frame or an error message (Render).         *)
(*                                                                         *)
(* Numbers.  soc values are Python floats (IEEE-754 binary64).  They are   *)
(* modelled bit-exactly: a float is a sign and a magnitude, the magnitude  *)
(* a fixed-point number with FracBits fractional bits held in NLimbs limbs *)
(* of 16 bits, least significant limb first, and every float operation     *)
(* rounds its exact result to 53 significant bits, ties to even (Round53). *)
(* The rounding decides the step at which the clamp to 100 or 0 first      *)
(* acts, so it is not abstracted.  The literals of                         *)
(* the chemistry table and the pack totals are exact decimals held as      *)
(* integers: tenths of a volt, tenths of an ampere hour, and currents in   *)
(* hundredths of an ampere.  Voltage samples are held in units of 1e-5 V,  *)
(* rounded down, with the factor computed to 1e-4: x ** 0.5 is a libm      *)
(* call whose last bit is not fixed by the language.                       *)
(***************************************************************************)
EXTENDS Integers, Sequences, FiniteSets, TLC

(***************************************************************************)
(* Bounds of the model                                                     *)
(***************************************************************************)
MaxSeries == 3
MaxSpeed == 2
MaxDuration == 1
LongDuration == 7202
Settled == 7199

\* durations simulate_battery is called with: the argument is any integer
\* (the slider of the sidebar passes 10..100)
Durations == (-1)..MaxDuration

(***************************************************************************)
(* Binary64 arithmetic: magnitudes                                         *)
(***************************************************************************)
Base == 65536
LimbBits == 16
NLimbs == 6
FracBits == 80
Mantissa == 53

\* a magnitude is the tuple of its NLimbs limbs
MagInt(n) == <<0, 0, 0, 0, 0, n>>

MagZero == MagInt(0)

IntPart(a) == a[NLimbs]

RECURSIVE Pow2Int(_)
Pow2Int(n) == IF n = 0 THEN 1 ELSE 2 * Pow2Int(n - 1)

RECURSIVE BitLen(_)
BitLen(n) == IF n = 0 THEN 0 ELSE 1 + BitLen(n \div 2)

\* a + b, the carry rippling upwards
MagAdd(a, b) ==
    LET s1 == a[1] + b[1]
        s2 == a[2] + b[2] + (s1 \div Base)
        s3 == a[3] + b[3] + (s2 \div Base)
        s4 == a[4] + b[4] + (s3 \div Base)
        s5 == a[5] + b[5] + (s4 \div Base)
        s6 == a[6] + b[6] + (s5 \div Base)
    IN  <<s1 % Base, s2 % Base, s3 % Base, s4 % Base, s5 % Base, s6 % Base>>

\* a - b for a >= b, the borrow rippling upwards (\div rounds down)
MagSub(a, b) ==
    LET d1 == a[1] - b[1]
        d2 == a[2] - b[2] + (d1 \div Base)
        d3 == a[3] - b[3] + (d2 \div Base)
        d4 == a[4] - b[4] + (d3 \div Base)
        d5 == a[5] - b[5] + (d4 \div Base)
        d6 == a[6] - b[6] + (d5 \div Base)
    IN  <<d1 % Base, d2 % Base, d3 % Base, d4 % Base, d5 % Base, d6 % Base>>

RECURSIVE LessFrom(_, _, _)
LessFrom(a, b, i) ==
    IF i = 0 THEN FALSE
    ELSE IF a[i] # b[i] THEN a[i] < b[i]
    ELSE LessFrom(a, b, i - 1)

MagLess(a, b) == LessFrom(a, b, NLimbs)

\* a * k for a small integer k
MagMul(a, k) ==
    LET p1 == a[1] * k
        p2 == a[2] * k + (p1 \div Base)
        p3 == a[3] * k + (p2 \div Base)
        p4 == a[4] * k + (p3 \div Base)
        p5 == a[5] * k + (p4 \div Base)
        p6 == a[6] * k + (p5 \div Base)
    IN  <<p1 % Base, p2 % Base, p3 % Base, p4 % Base, p5 % Base, p6 % Base>>

\* short division of a by a small integer d: the quotient, rounded down,
\* and the remainder
MagDivRem(a, d) ==
    LET r6 == a[6]
        r5 == (r6 % d) * Base + a[5]
        r4 == (r5 % d) * Base + a[4]
        r3 == (r4 % d) * Base + a[3]
        r2 == (r3 % d) * Base + a[2]
        r1 == (r2 % d) * Base + a[1]
    IN  [quot |-> <<r1 \div d, r2 \div d, r3 \div d, r4 \div d, r5 \div d, r6 \div d>>,
         rem  |-> r1 % d]

RECURSIVE TopLimbFrom(_, _)
TopLimbFrom(a, i) ==
    IF i = 0 THEN 0 ELSE IF a[i] # 0 THEN i ELSE TopLimbFrom(a, i - 1)

\* position of the most significant set bit, counted from 0; -1 for zero
TopBit(a) ==
    LET l == TopLimbFrom(a, NLimbs)
    IN  IF l = 0 THEN -1 ELSE LimbBits * (l - 1) + BitLen(a[l]) - 1

\* limb i of 2^q
Pow2Limb(q, i) == IF i = (q \div LimbBits) + 1 THEN Pow2Int(q % LimbBits) ELSE 0

Pow2(q) ==
    <<Pow2Limb(q, 1), Pow2Limb(q, 2), Pow2Limb(q, 3),
      Pow2Limb(q, 4), Pow2Limb(q, 5), Pow2Limb(q, 6)>>

\* limb i of a mod 2^q
LowLimb(a, q, i) ==
    IF i - 1 < q \div LimbBits THEN a[i]
    ELSE IF i - 1 = q \div LimbBits THEN a[i] % Pow2Int(q % LimbBits)
    ELSE 0

LowBits(a, q) ==
    <<LowLimb(a, q, 1), LowLimb(a, q, 2), LowLimb(a, q, 3),
      LowLimb(a, q, 4), LowLimb(a, q, 5), LowLimb(a, q, 6)>>

BitAt(a, q) == (a[(q \div LimbBits) + 1] \div Pow2Int(q % LimbBits)) % 2

\* round to nearest, ties to even, keeping Mantissa significant bits;
\* sticky says that the exact value lies strictly above a
Round53(a, sticky) ==
    LET q == TopBit(a) - (Mantissa - 1)
    IN  IF q <= 0 THEN a
        ELSE LET low  == LowBits(a, q)
                 half == Pow2(q - 1)
                 down == MagSub(a, low)
                 up   == MagLess(half, low)
                           \/ (low = half /\ (sticky \/ BitAt(a, q) = 1))
             IN  IF up THEN MagAdd(down, Pow2(q)) ELSE down

(***************************************************************************)
(* Binary64 arithmetic: floats                                             *)
(***************************************************************************)
\* zero carries no sign: -0.0 and 0.0 compare equal in Python
Float(neg, mag) == [neg |-> neg /\ mag # MagZero, mag |-> mag]

FromInt(n) == Float(FALSE, MagInt(n))

\* n / 100 for n a non-negative multiple of 25, exact
FromCenti(n) == Float(FALSE, MagDivRem(MagInt(n), 100).quot)

Zero == FromInt(0)

Hundred == FromInt(100)

FLess(x, y) ==
    IF x.neg # y.neg THEN x.neg
    ELSE IF x.neg THEN MagLess(y.mag, x.mag)
    ELSE MagLess(x.mag, y.mag)

FNeg(x) == Float(~x.neg, x.mag)

FAdd(x, y) ==
    IF x.neg = y.neg THEN Float(x.neg, Round53(MagAdd(x.mag, y.mag), FALSE))
    ELSE IF MagLess(x.mag, y.mag)
         THEN Float(y.neg, Round53(MagSub(y.mag, x.mag), FALSE))
         ELSE Float(x.neg, Round53(MagSub(x.mag, y.mag), FALSE))

FSub(x, y) == FAdd(x, FNeg(y))

\* x / d for an integer d > 0
FDivInt(x, d) ==
    LET qr == MagDivRem(x.mag, d)
    IN  Float(x.neg, Round53(qr.quot, qr.rem # 0))

\* x * k for an integer k > 0
FMulInt(x, k) == Float(x.neg, Round53(MagMul(x.mag, k), FALSE))

\* x / (n / 10) for an integer n > 0, rounded once
FDivTenths(x, n) ==
    LET qr == MagDivRem(MagMul(x.mag, 10), n)
    IN  Float(x.neg, Round53(qr.quot, qr.rem # 0))

(***************************************************************************)
(* Configuration                                                           *)
(***************************************************************************)
\* voltage in tenths of a volt, capacity in tenths of an ampere hour,
\* efficiency in percent
battery_types ==
    [ LithiumIon |-> [voltage |-> 37, capacity |-> 25, efficiency |-> 95],
      LeadAcid   |-> [voltage |-> 20, capacity |-> 50, efficiency |-> 85],
      NiMH       |-> [voltage |-> 12, capacity |-> 20, efficiency |-> 75],
      SolidState |-> [voltage |-> 38, capacity |-> 30, efficiency |-> 98] ]

BatteryNames == DOMAIN battery_types

Modes == {"Charging", "Discharging"}

\* the values the sidebar shows before the user touches it
DefaultBattery == "LithiumIon"
DefaultSeries == 3
DefaultParallel == 2

\* the largest value of the "Cells in Parallel" slider
MaxParallel == 5

VARIABLES
    battery_type, series_cells, parallel_cells,   \* sidebar selection
    total_voltage, total_capacity,                \* pack totals (module globals)
    pc,                                           \* "script", "loop", "returned", "idle"
    sim_mode, duration, speed,                    \* arguments of the last call
    time, soc, voltage, current,                  \* arrays of the running call
    soc_val, base_current,                        \* scalars of the running call
    data,                                         \* the returned frame, if any
    shown,                                        \* what the page shows
    first                                         \* history: the first call and its result

vars == <<battery_type, series_cells, parallel_cells, total_voltage,
          total_capacity, pc, sim_mode, duration, speed, time, soc, voltage,
          current, soc_val, base_current, data, shown, first>>

(***************************************************************************)
(* simulate_battery                                                        *)
(***************************************************************************)
\* np.arange(0, stop, 1.0) for an integer stop
Arange(stop) == [i \in 1..stop |-> i - 1]

InitialSoc(mode) == IF mode = "Charging" THEN Zero ELSE Hundred

\* total_capacity * c_rate, in hundredths of an ampere
BaseCurrent(capacity) == capacity * 5

\* mutant: the step is taken with the wrong sign
DeltaSoc_negated(bc, capacity) ==
    FNeg(FMulInt(FDivTenths(FDivInt(FromCenti(bc), 3600), capacity), 100))

\* mutant: the speed multiplier is applied to the step
DeltaSoc_speed(bc, capacity) ==
    FMulInt(FMulInt(FDivTenths(FDivInt(FromCenti(bc), 3600), capacity), 100), speed)

\* mutant: the step is not divided by the capacity
DeltaSoc_nocancel(bc, capacity) ==
    FMulInt(FDivInt(FromCenti(bc), 3600), 100)

\* (base_current * time_step / 3600) / total_capacity * 100
DeltaSoc(bc, capacity) ==
    FMulInt(FDivTenths(FDivInt(FromCenti(bc), 3600), capacity), 100)

\* mutant: the upper clamp is missing
Min100_noclamp(x) == x

\* min(100, x)
Min100(x) == IF FLess(x, Hundred) THEN x ELSE Hundred

\* max(0, x)
Max0(x) == IF FLess(Zero, x) THEN x ELSE Zero

NextSoc(mode, s, delta) ==
    IF mode = "Charging" THEN Min100(FAdd(s, delta))
    ELSE Max0(FSub(s, delta))

\* mutant: the current is not cut off at the bound
CurrentVal_nocutoff(mode, s, bc) == IF mode = "Charging" THEN bc ELSE -bc

\* mutant: the cut-off compares with <= and >= instead of < and >
CurrentVal_inclusive(mode, s, bc) ==
    IF mode = "Charging" THEN (IF ~FLess(Hundred, s) THEN bc ELSE 0)
    ELSE (IF ~FLess(s, Zero) THEN -bc ELSE 0)

CurrentVal(mode, s, bc) ==
    IF mode = "Charging" THEN (IF FLess(s, Hundred) THEN bc ELSE 0)
    ELSE (IF FLess(Zero, s) THEN -bc ELSE 0)

RECURSIVE IsqrtIn(_, _, _)
\* the integer square root of n, known to lie in lo..hi
IsqrtIn(n, lo, hi) ==
    IF lo = hi THEN lo
    ELSE LET mid == (lo + hi + 1) \div 2
         IN  IF mid * mid <= n THEN IsqrtIn(n, mid, hi)
             ELSE IsqrtIn(n, lo, mid - 1)

\* soc / 100 in units of 1e-4, rounded towards zero
SocFraction(s) ==
    IF s.neg THEN -IntPart(MagMul(s.mag, 100)) ELSE IntPart(MagMul(s.mag, 100))

\* voltage_factor in units of 1e-4
VoltageFactor(mode, s) ==
    IF mode = "Charging"
    THEN 8500 + (1500 * IsqrtIn(SocFraction(s) * 10000, 0, 10000)) \div 10000
    ELSE 7500 + (2500 * SocFraction(s)) \div 10000

\* total_voltage * voltage_factor in units of 1e-5 V
VoltageVal(mode, s, tv) == tv * VoltageFactor(mode, s)

\* mutant: the loop also ends when soc reaches its bound
LoopDone_early ==
    \/ Len(soc) = Len(time)
    \/ soc # <<>> /\ soc[Len(soc)] \in {Zero, Hundred} /\ Len(soc) > 1

\* the for loop has consumed the time grid
LoopDone == Len(soc) = Len(time)

Frame(t, s, c, v) == [Time |-> t, SOC |-> s, Current |-> c, Voltage |-> v]

\* lines 16-18, 24-26: a new script run reads the sidebar and resolves the pack
Sidebar(bt, sc, pcells) ==
    /\ pc = "idle"
    /\ battery_type' = bt
    /\ series_cells' = sc
    /\ parallel_cells' = pcells
    /\ total_voltage' = battery_types[bt].voltage * sc
    /\ total_capacity' = battery_types[bt].capacity * pcells
    /\ shown' = "nothing"
    /\ pc' = "script"
    /\ UNCHANGED <<sim_mode, duration, speed, time, soc, voltage, current,
                   soc_val, base_current, data, first>>

\* line 101 and lines 41-55: the call, up to the for loop
Call(m, d, sp) ==
    /\ pc = "script"
    /\ sim_mode' = m
    /\ duration' = d
    /\ speed' = sp
    /\ time' = Arange(d + 1)
    /\ soc' = <<>>
    /\ voltage' = <<>>
    /\ current' = <<>>
    /\ soc_val' = InitialSoc(m)
    /\ base_current' = BaseCurrent(total_capacity)
    /\ pc' = "loop"
    /\ UNCHANGED <<battery_type, series_cells, parallel_cells, total_voltage,
                   total_capacity, data, shown, first>>

\* lines 57-83: one iteration of the for loop
Step ==
    /\ pc = "loop"
    /\ ~LoopDone
    /\ LET delta_soc == DeltaSoc(base_current, total_capacity)
           s == NextSoc(sim_mode, soc_val, delta_soc)
       IN  /\ soc_val' = s
           /\ soc' = Append(soc, s)
           /\ current' = Append(current, CurrentVal(sim_mode, s, base_current))
           /\ voltage' = Append(voltage, VoltageVal(sim_mode, s, total_voltage))
    /\ UNCHANGED <<battery_type, series_cells, parallel_cells, total_voltage,
                   total_capacity, pc, sim_mode, duration, speed, time,
                   base_current, data, shown, first>>

\* lines 85-90: the frame is returned and the locals of the call are gone
Return ==
    /\ pc = "loop"
    /\ LoopDone
    /\ data' = <<Frame(time, soc, current, voltage)>>
    /\ pc' = "returned"
    /\ time' = <<>>
    /\ soc' = <<>>
    /\ voltage' = <<>>
    /\ current' = <<>>
    /\ soc_val' = Zero
    /\ base_current' = 0
    /\ first' = IF first = <<>>
                THEN <<[total_voltage |-> total_voltage,
                        total_capacity |-> total_capacity,
                        sim_mode |-> sim_mode, duration |-> duration,
                        speed |-> speed, data |-> data'[1]]>>
                ELSE first
    /\ UNCHANGED <<battery_type, series_cells, parallel_cells, total_voltage,
                   total_capacity, sim_mode, duration, speed, shown>>

\* lines 103-164: the page is drawn and the script run ends; iloc[-1] of an
\* empty column raises IndexError, which the except clause turns into a message
Render ==
    /\ pc = "returned"
    /\ shown' = IF data[1].SOC = <<>> THEN "error" ELSE "metrics"
    /\ data' = <<>>
    /\ sim_mode' = "Charging"
    /\ duration' = 0
    /\ speed' = 1
    /\ pc' = "idle"
    /\ UNCHANGED <<battery_type, series_cells, parallel_cells, total_voltage,
                   total_capacity, time, soc, voltage, current, soc_val,
                   base_current, first>>

\* the sidebar shows the pack (bt, sc, pcells) and no call has been made
Start(bt, sc, pcells) ==
    /\ battery_type = bt
    /\ series_cells = sc
    /\ parallel_cells = pcells
    /\ total_voltage = battery_types[bt].voltage * sc
    /\ total_capacity = battery_types[bt].capacity * pcells
    /\ pc = "script"
    /\ sim_mode = "Charging"
    /\ duration = 0
    /\ speed = 1
    /\ time = <<>>
    /\ soc = <<>>
    /\ voltage = <<>>
    /\ current = <<>>
    /\ soc_val = Zero
    /\ base_current = 0
    /\ data = <<>>
    /\ shown = "nothing"
    /\ first = <<>>

\* the first run of the script: the sidebar shows its defaults
Init == Start(DefaultBattery, DefaultSeries, DefaultParallel)

Rerun ==
    /\ pc = "idle"
    /\ \E bt \in BatteryNames, sc \in 1..MaxSeries, pcells \in 1..MaxParallel :
         Sidebar(bt, sc, pcells)

Simulate ==
    /\ pc = "script"
    /\ \E m \in Modes, d \in Durations, sp \in 1..MaxSpeed : Call(m, d, sp)

Next == Rerun \/ Simulate \/ Step \/ Return \/ Render

Spec == Init /\ [][Next]_vars

\* the pack of the scenarios: Lithium-Ion, one cell
InitScenario == Start("LithiumIon", 1, 1)

RECURSIVE SocRun(_, _, _, _)
\* the k soc values the loop appends after soc_val = s
SocRun(mode, s, k, delta) ==
    IF k = 0 THEN <<>>
    ELSE IF k = 1 THEN <<NextSoc(mode, s, delta)>>
    ELSE LET h == k \div 2
             left == SocRun(mode, s, h, delta)
         IN  left \o SocRun(mode, left[h], k - h, delta)

\* a call of LongDuration seconds on the pack of the scenarios, Settled
\* iterations into its for loop
MidRun(m) ==
    /\ battery_type = "LithiumIon"
    /\ series_cells = 1
    /\ parallel_cells = 1
    /\ total_voltage = battery_types["LithiumIon"].voltage
    /\ total_capacity = battery_types["LithiumIon"].capacity
    /\ pc = "loop"
    /\ sim_mode = m
    /\ duration = LongDuration
    /\ speed = 1
    /\ time = Arange(LongDuration + 1)
    /\ base_current = BaseCurrent(total_capacity)
    /\ soc = SocRun(m, InitialSoc(m), Settled,
                    DeltaSoc(base_current, total_capacity))
    /\ current = [i \in 1..Settled |-> CurrentVal(m, soc[i], base_current)]
    /\ voltage = [i \in 1..Settled |-> VoltageVal(m, soc[i], total_voltage)]
    /\ soc_val = soc[Settled]
    /\ data = <<>>
    /\ shown = "nothing"
    /\ first = <<>>

\* the script is about to call, on the default pack or on the pack of the
\* scenarios, or a long call is well into its loop
InitLong == Init \/ InitScenario \/ \E m \in Modes : MidRun(m)

SimulateOnce ==
    /\ pc = "script"
    /\ \E m \in Modes, d \in Durations, sp \in 1..MaxSpeed : Call(m, d, sp)

NextLong == SimulateOnce \/ Step \/ Return \/ Render

SpecLong == InitLong /\ [][NextLong]_vars

(***************************************************************************)
(* Properties                                                              *)
(***************************************************************************)
\* the bound soc saturates at
Bound(mode) == IF mode = "Charging" THEN Hundred ELSE Zero

InRange(x) == ~FLess(x, Zero) /\ ~FLess(Hundred, x)

\* the frame of the call that has just returned
Returned == pc = "returned"

\* the step of the running call, as the loop computes it
Delta == DeltaSoc(base_current, total_capacity)

\* C1: every sample has 0 <= soc <= 100: the newest sample of the running
\* call at every step of its loop, and every row of a returned frame.
SocClamped ==
    /\ soc # <<>> => InRange(soc[Len(soc)])
    /\ Returned => \A i \in DOMAIN data[1].SOC : InRange(data[1].SOC[i])

\* the upper clamp has acted: the unclamped sum exceeded 100
SocClampedWitness ==
    /\ pc = "loop"
    /\ sim_mode = "Charging"
    /\ Len(soc) >= 2
    /\ soc[Len(soc)] = Hundred
    /\ FLess(Hundred, FAdd(soc[Len(soc) - 1], Delta))

NonDecreasing(q) == \A i \in 1..(Len(q) - 1) : ~FLess(q[i + 1], q[i])

NonIncreasing(q) == \A i \in 1..(Len(q) - 1) : ~FLess(q[i], q[i + 1])

\* C2: consecutive samples of one trace never decrease when charging and
\* never increase when discharging: the two newest samples at every step of
\* the loop, and all consecutive rows of a returned frame.
SocMonotone ==
    /\ Len(soc) >= 2 =>
         IF sim_mode = "Charging"
         THEN ~FLess(soc[Len(soc)], soc[Len(soc) - 1])
         ELSE ~FLess(soc[Len(soc) - 1], soc[Len(soc)])
    /\ Returned =>
         IF sim_mode = "Charging" THEN NonDecreasing(data[1].SOC)
         ELSE NonIncreasing(data[1].SOC)

\* a discharging run that saturated mid-run: it fell from 100, reached 0
\* and has emitted a further sample
SocMonotoneWitness ==
    /\ pc = "loop"
    /\ sim_mode = "Discharging"
    /\ Len(soc) >= 3
    /\ FLess(soc[1], Hundred)
    /\ FLess(Zero, soc[Len(soc) - 2])
    /\ soc[Len(soc) - 1] = Zero
    /\ soc[Len(soc)] = Zero

\* the newest sample of the running call sits at the bound
Saturated ==
    /\ pc = "loop"
    /\ soc # <<>>
    /\ soc[Len(soc)] = Bound(sim_mode)

\* C3: saturation is absorbing: a sample at the bound has current 0, and the
\* sample the loop emits after it is at the bound with current 0 again.
SaturationAbsorbing ==
    [][Saturated =>
         /\ current[Len(current)] = 0
         /\ Len(soc') > Len(soc) =>
              /\ soc'[Len(soc')] = Bound(sim_mode)
              /\ current'[Len(current')] = 0]_vars

\* a run longer than 7200 s has emitted samples after the one that saturated
SaturationAbsorbingWitness ==
    /\ pc = "loop"
    /\ duration > 7200
    /\ Len(soc) = duration + 1
    /\ soc[Len(soc) - 1] = Bound(sim_mode)
    /\ soc[Len(soc)] = Bound(sim_mode)
    /\ current[Len(current)] = 0
    /\ soc[1] # Bound(sim_mode)

\* C4: for a duration >= 1 the returned frame has duration + 1 rows in every
\* column, its times start at 0, end at duration and increase strictly; the
\* call never returns before the time grid is exhausted.
TraceShape ==
    /\ Returned /\ duration >= 1 =>
         LET f == data[1]
         IN  /\ Len(f.Time) = duration + 1
             /\ Len(f.SOC) = duration + 1
             /\ Len(f.Current) = duration + 1
             /\ Len(f.Voltage) = duration + 1
             /\ f.Time[1] = 0
             /\ f.Time[duration + 1] = duration
             /\ \A i \in 1..duration : f.Time[i] < f.Time[i + 1]
    /\ pc = "loop" => Len(soc) <= Len(time)

\* a returned frame whose soc saturated mid-run and that still has all rows
TraceShapeWitness ==
    /\ Returned
    /\ duration = LongDuration
    /\ Len(data[1].SOC) = LongDuration + 1
    /\ data[1].SOC[LongDuration] = Bound(sim_mode)
    /\ data[1].SOC[1] # Bound(sim_mode)

\* C5: the first sample is the initial state, emitted before any step is
\* applied: soc 0 and voltage 0.85 x total_voltage when charging, soc 100
\* and voltage 1.0 x total_voltage when discharging.
FirstSampleIsInitialState ==
    soc # <<>> =>
        /\ soc[1] = InitialSoc(sim_mode)
        /\ voltage[1] = total_voltage *
              (IF sim_mode = "Charging" THEN 8500 ELSE 10000)

RECURSIVE SocAfter(_, _, _)
\* the soc after k step transitions
SocAfter(mode, k, delta) ==
    IF k = 0 THEN InitialSoc(mode)
    ELSE NextSoc(mode, SocAfter(mode, k - 1, delta), delta)

\* C6: the sample at time t has had exactly t step transitions applied to
\* the initial soc.
SampleAfterTSteps ==
    soc # <<>> =>
        soc[Len(soc)] = SocAfter(sim_mode, time[Len(soc)], Delta)

\* C7: a call with a duration <= 0 returns no frame.
InvalidDurationRejected == Returned => duration >= 1

\* the recorded first call had the same pack totals, mode and duration
SameInputs ==
    /\ first # <<>>
    /\ first[1].total_voltage = total_voltage
    /\ first[1].total_capacity = total_capacity
    /\ first[1].sim_mode = sim_mode
    /\ first[1].duration = duration

\* C8: a call returns the frame that the first call with the same pack
\* totals, mode and duration returned, whatever ran in between.
Deterministic == Returned /\ SameInputs => data[1] = first[1].data

\* a later call, told apart from the first by its speed, repeats its inputs
DeterministicWitness ==
    /\ Returned
    /\ SameInputs
    /\ first[1].speed # speed
    /\ duration >= 1

ExpectedCurrent(mode, s, capacity) ==
    IF mode = "Charging"
    THEN (IF FLess(s, Hundred) THEN (capacity * 10) \div 2 ELSE 0)
    ELSE (IF FLess(Zero, s) THEN -((capacity * 10) \div 2) ELSE 0)

\* C9: the current of a sample follows from the soc of the same sample: it
\* is 0.5 x total_capacity, negative when discharging, unless soc is at its
\* bound, and then it is 0; so it is 0 exactly at the bound, and a 2.5 Ah
\* pack discharges at -1.25 A in each of the first 61 samples.
CurrentFollowsSoc ==
    /\ soc # <<>> =>
         LET n == Len(soc)
         IN  /\ current[n] = ExpectedCurrent(sim_mode, soc[n], total_capacity)
             /\ current[n] = 0 <=> soc[n] = Bound(sim_mode)
             /\ sim_mode = "Discharging" /\ total_capacity = 25 /\ n <= 61
                  => current[n] = -125
    /\ Returned =>
         \A i \in DOMAIN data[1].SOC :
             data[1].Current[i] =
                 ExpectedCurrent(sim_mode, data[1].SOC[i], total_capacity)

\* the 2.5 Ah pack discharged for more than 7200 s: -1.25 A at 60 s and
\* until soc reaches 0, and 0 A from then on
CurrentFollowsSocWitness ==
    /\ Returned
    /\ sim_mode = "Discharging"
    /\ total_capacity = 25
    /\ duration > 7200
    /\ data[1].Current[61] = -125
    /\ FLess(Zero, data[1].SOC[7200])
    /\ data[1].Current[7200] = -125
    /\ data[1].Current[7201] = 0
    /\ data[1].SOC[7201] = Zero

====
